---------------------------- MODULE Spec2Model ----------------------------
(***************************************************************************)
(* whatdis/binary_features.py: data-quality checks for binary columns.     *)
(*                                                                         *)
(* The four public functions are pure.  Each is an operator that returns   *)
(* what the call does: the exception it ends with (if any), the sequence   *)
(* of calls it made in order, and the report it returned.  One action per  *)
(* public function applies it to the input drawn in Init.                  *)
(*                                                                         *)
(* Python floats are IEEE-754 doubles: a literal, a mean (sum / count)     *)
(* and 1 - thresh are each rounded to 53 significant bits, nearest-even.   *)
(***************************************************************************)
EXTENDS Integers, Sequences, FiniteSets, TLC

\* ------------------------------------------------------------- bounds
\* Rows of a single-column (Series) input.
MaxRows == 5
\* Rows of a table (DataFrame) input.
MaxTableRows == 2

\* ------------------------------------------------------------ doubles
\* Significant bits of a double.
MantissaBits == 53

\* A double is [nan, neg, int, f]: sign, integer part and the first 72 bits
\* of its fraction as three 24-bit limbs.  That is exact for every double
\* of magnitude in [2^-19, 2^24), which covers every value met here.
Limb == 2^24
FixedBits == 72

NaN == [nan |-> TRUE, neg |-> FALSE, int |-> 0, f |-> <<0, 0, 0>>]

RECURSIVE BitLen(_)
BitLen(i) == IF i = 0 THEN 0 ELSE 1 + BitLen(i \div 2)

\* Round int + 0.f (+ something below the last bit iff sticky) to a double:
\* 53 significant bits, ties to even.  The bits dropped lie in the last limb.
RoundFixed(neg, int, f, sticky) ==
    IF int = 0 /\ f = <<0, 0, 0>>
    THEN [nan |-> FALSE, neg |-> FALSE, int |-> 0, f |-> f]
    ELSE
    LET keep == IF int > 0 THEN MantissaBits - BitLen(int)
                ELSE (24 - BitLen(f[1])) + MantissaBits
        cut  == FixedBits - keep
        unit == 2^cut
        lo   == f[3] % unit
        hi   == f[3] \div unit
        up   == /\ cut >= 1
                /\ \/ 2 * lo > unit
                   \/ 2 * lo = unit /\ (sticky \/ hi % 2 = 1)
        n3   == (hi + (IF up THEN 1 ELSE 0)) * unit
        n2   == f[2] + (IF n3 = Limb THEN 1 ELSE 0)
        n1   == f[1] + (IF n2 = Limb THEN 1 ELSE 0)
    IN  [nan |-> FALSE, neg |-> neg,
         int |-> int + (IF n1 = Limb THEN 1 ELSE 0),
         f   |-> <<n1 % Limb, n2 % Limb, n3 % Limb>>]

\* The double nearest to s/n (0 < n < 128): a correctly rounded division,
\* and the value of a decimal literal.  Long division, one limb at a time.
FromRatio(s, n) ==
    LET a  == IF s < 0 THEN 0 - s ELSE s
        r0 == a % n
        r1 == (r0 * Limb) % n
        r2 == (r1 * Limb) % n
        r3 == (r2 * Limb) % n
    IN  RoundFixed(s < 0, a \div n,
                   <<(r0 * Limb) \div n, (r1 * Limb) \div n, (r2 * Limb) \div n>>,
                   r3 # 0)

\* A threshold argument is written in hundredths: Literal(95) is 0.95.
Literal(p) == FromRatio(p, 100)

CmpMag(a, b) ==
    IF a.int # b.int THEN (IF a.int < b.int THEN -1 ELSE 1)
    ELSE IF a.f[1] # b.f[1] THEN (IF a.f[1] < b.f[1] THEN -1 ELSE 1)
    ELSE IF a.f[2] # b.f[2] THEN (IF a.f[2] < b.f[2] THEN -1 ELSE 1)
    ELSE IF a.f[3] # b.f[3] THEN (IF a.f[3] < b.f[3] THEN -1 ELSE 1)
    ELSE 0

\* -1, 0, 1 as a < b, a = b, a > b (neither is NaN).
Cmp(a, b) ==
    IF a.neg /\ ~b.neg THEN -1
    ELSE IF ~a.neg /\ b.neg THEN 1
    ELSE IF a.neg THEN 0 - CmpMag(a, b) ELSE CmpMag(a, b)

\* Python's >= and <= on floats: False when either side is NaN.
Ge(a, b) == ~a.nan /\ ~b.nan /\ Cmp(a, b) >= 0
Le(a, b) == ~a.nan /\ ~b.nan /\ Cmp(a, b) <= 0

\* 1 - t, rounded.  For 0 < t < 1 the exact difference is 2^72 - F over
\* 2^72, F the fraction bits of t.
OneMinus(t) ==
    IF t.nan THEN NaN
    ELSE IF t.int = 0 /\ t.f = <<0, 0, 0>> THEN FromRatio(1, 1)
    ELSE IF t.neg THEN RoundFixed(FALSE, t.int + 1, t.f, FALSE)
    ELSE IF t.int >= 1 THEN RoundFixed(TRUE, t.int - 1, t.f, FALSE)
    ELSE RoundFixed(FALSE, 0,
             IF t.f[3] > 0 THEN <<Limb - 1 - t.f[1], Limb - 1 - t.f[2], Limb - t.f[3]>>
             ELSE IF t.f[2] > 0 THEN <<Limb - 1 - t.f[1], Limb - t.f[2], 0>>
             ELSE <<Limb - t.f[1], 0, 0>>,
             FALSE)

\* --------------------------------------------------------------- data
\* Element types a column can declare.  np.dtype(int) is int64.
Dtypes == {"bool", "int64", "int32", "float64", "object"}

\* Values a column of each dtype holds here.  An int64 column can hold
\* integers outside {0, 1}; a bool column holds False/True, which pandas
\* aggregates as 0/1.  Values of the other dtypes are never read.
ValuesOf(d) ==
    IF d = "int64" THEN {-1, 0, 1, 2}
    ELSE IF d = "bool" THEN {0, 1}
    ELSE {1}

ColNames == {"A", "B"}

\* Columns of n rows.
Columns(n) ==
    UNION {{[dtype |-> d, values |-> v] : v \in [1..n -> ValuesOf(d)]} : d \in Dtypes}

\* A pd.Series: one column.
SeriesOf(col) == [kind |-> "Series", dtype |-> col.dtype, values |-> col.values]

\* A pd.DataFrame: named columns sharing their rows.
Tables(n) ==
    UNION {{[kind |-> "DataFrame", columns |-> cols] : cols \in [names -> Columns(n)]}
           : names \in SUBSET ColNames}

Inputs ==
    UNION {{SeriesOf(c) : c \in Columns(n)} : n \in 0..MaxRows}
    \cup UNION {Tables(n) : n \in 0..MaxTableRows}

\* Threshold arguments, in hundredths.
ThreshArgs == {-5, 0, 5, 50, 60, 80, 95, 100, 101}
\* check_mostly_same's default thresh, 0.95.
DefaultThresh == 95

\* --------------------------------------------------------- aggregation
RECURSIVE SeqSum(_)
SeqSum(v) == IF v = <<>> THEN 0 ELSE Head(v) + SeqSum(Tail(v))

\* pandas min/max/mean skip nothing here (no missing values) and give NaN
\* for a column with no rows.  A scalar is [nan, v].
ScalarNaN == [nan |-> TRUE, v |-> 0]
Min(v) ==
    IF v = <<>> THEN ScalarNaN
    ELSE [nan |-> FALSE,
          v |-> CHOOSE x \in {v[i] : i \in 1..Len(v)} : \A i \in 1..Len(v) : x <= v[i]]
Max(v) ==
    IF v = <<>> THEN ScalarNaN
    ELSE [nan |-> FALSE,
          v |-> CHOOSE x \in {v[i] : i \in 1..Len(v)} : \A i \in 1..Len(v) : x >= v[i]]
\* sum / count as a double.
Mean(v) == IF v = <<>> THEN NaN ELSE FromRatio(SeqSum(v), Len(v))

\* ==, < and > on scalars: False when a side is NaN.
ScalarEq(a, b) == ~a.nan /\ ~b.nan /\ a.v = b.v
ScalarLt(a, k) == ~a.nan /\ a.v < k
ScalarGt(a, k) == ~a.nan /\ a.v > k

\* ------------------------------------------------------ whatdis.utils
\* What a call does: the exception it ends with, the calls it made in
\* order, and the report it returned (<<>> when it raised).
Returned(trace, report) == [raised |-> "none", trace |-> trace, report |-> <<report>>]
Raised(err, trace) == [raised |-> err, trace |-> trace, report |-> <<>>]

check_if_df(data) == data.kind = "DataFrame"

\* Raises ValueError iff thresh <= 0.0 or thresh >= 1.0.
validate_thresh(thresh) ==
    IF Le(thresh, FromRatio(0, 1)) \/ Ge(thresh, FromRatio(1, 1))
    THEN "ValueError" ELSE "ok"

\* The report: the outcome under the name title, plus the extra fields.
result_to_df(data, title, extra) == [title |-> title, outcome |-> data, extra |-> extra]

NoExtra == <<>>

\* -------------------------------------------------- binary_features.py
types == {"bool", "int64"}

\* .any() where the code has .all(): one allowed column lets a table pass.
validate_binary_dtype_any(data) ==
    IF check_if_df(data)
    THEN IF ~(\E c \in DOMAIN data.columns : data.columns[c].dtype \in types)
         THEN "TypeError" ELSE "ok"
    ELSE IF data.dtype \notin types
         THEN "TypeError" ELSE "ok"

validate_binary_dtype(data) ==
    LET is_df == check_if_df(data) IN
    IF is_df
    THEN IF ~(\A c \in DOMAIN data.columns : data.columns[c].dtype \in types)
         THEN "TypeError" ELSE "ok"
    ELSE IF data.dtype \notin types
         THEN "TypeError" ELSE "ok"

\* The calls a check makes once its validation has passed.
AllSameTrace == <<"check_if_df", "validate_binary_dtype", "min", "max", "result_to_df">>
OutsideRangeTrace == AllSameTrace
MostlySameTrace ==
    <<"validate_thresh", "check_if_df", "validate_binary_dtype", "mean", "result_to_df">>

\* min compared with itself.
all_same_report_minmin(data, is_df) ==
    IF is_df
    THEN result_to_df([c \in DOMAIN data.columns |->
                          ScalarEq(Min(data.columns[c].values),
                                   Min(data.columns[c].values))],
                      "all_same", NoExtra)
    ELSE result_to_df(ScalarEq(Min(data.values), Min(data.values)),
                      "all_same", NoExtra)

\* data.min(axis=0).eq(data.max(axis=0)), or data.min() == data.max().
all_same_report(data, is_df) ==
    IF is_df
    THEN result_to_df([c \in DOMAIN data.columns |->
                          ScalarEq(Min(data.columns[c].values),
                                   Max(data.columns[c].values))],
                      "all_same", NoExtra)
    ELSE result_to_df(ScalarEq(Min(data.values), Max(data.values)),
                      "all_same", NoExtra)

check_all_same(data) ==
    LET is_df == check_if_df(data) IN
    IF validate_binary_dtype(data) = "TypeError"
    THEN Raised("TypeError", <<"check_if_df", "validate_binary_dtype">>)
    ELSE Returned(AllSameTrace, all_same_report(data, is_df))

\* The <= 1 - thresh half left out.
MostlySame_ge_only(mean, thresh) == Ge(mean, thresh)

\* mean >= thresh or mean <= 1 - thresh, on doubles.
MostlySame(mean, thresh) == Ge(mean, thresh) \/ Le(mean, OneMinus(thresh))

\* & where the table path has |.
mostly_same_report_df_and(data, is_df, thresh) ==
    IF is_df
    THEN LET mean == [c \in DOMAIN data.columns |-> Mean(data.columns[c].values)]
             result == [c \in DOMAIN data.columns |->
                           Ge(mean[c], thresh) /\ Le(mean[c], OneMinus(thresh))]
         IN  result_to_df(result, "mostly_same", [thresh |-> thresh, mean |-> mean])
    ELSE LET mean == Mean(data.values)
             result == MostlySame(mean, thresh)
         IN  result_to_df(result, "mostly_same", [thresh |-> thresh, mean |-> mean])

mostly_same_report(data, is_df, thresh) ==
    IF is_df
    THEN LET mean == [c \in DOMAIN data.columns |-> Mean(data.columns[c].values)]
             result == [c \in DOMAIN data.columns |-> MostlySame(mean[c], thresh)]
         IN  result_to_df(result, "mostly_same", [thresh |-> thresh, mean |-> mean])
    ELSE LET mean == Mean(data.values)
             result == MostlySame(mean, thresh)
         IN  result_to_df(result, "mostly_same", [thresh |-> thresh, mean |-> mean])

\* validate_thresh never called.
check_mostly_same_unvalidated_thresh(data, thresh) ==
    LET is_df == check_if_df(data) IN
    IF validate_binary_dtype(data) = "TypeError"
    THEN Raised("TypeError", <<"check_if_df", "validate_binary_dtype">>)
    ELSE Returned(Tail(MostlySameTrace), mostly_same_report(data, is_df, thresh))

\* validate_binary_dtype called before validate_thresh.
check_mostly_same_dtype_first(data, thresh) ==
    LET is_df == check_if_df(data) IN
    IF validate_binary_dtype(data) = "TypeError"
    THEN Raised("TypeError", <<"check_if_df", "validate_binary_dtype">>)
    ELSE IF validate_thresh(thresh) = "ValueError"
    THEN Raised("ValueError", <<"check_if_df", "validate_binary_dtype", "validate_thresh">>)
    ELSE Returned(<<"check_if_df", "validate_binary_dtype", "validate_thresh",
                    "mean", "result_to_df">>,
                  mostly_same_report(data, is_df, thresh))

check_mostly_same(data, thresh) ==
    IF validate_thresh(thresh) = "ValueError"
    THEN Raised("ValueError", <<"validate_thresh">>)
    ELSE
    LET is_df == check_if_df(data) IN
    IF validate_binary_dtype(data) = "TypeError"
    THEN Raised("TypeError", <<"validate_thresh", "check_if_df", "validate_binary_dtype">>)
    ELSE Returned(MostlySameTrace, mostly_same_report(data, is_df, thresh))

\* max >= 1 where the code has max > 1.
OutsideRange_ge(v) == ScalarLt(Min(v), 0) \/ ~ScalarLt(Max(v), 1)

\* min < 0 or max > 1.
OutsideRange(v) == ScalarLt(Min(v), 0) \/ ScalarGt(Max(v), 1)

outside_range_report(data, is_df) ==
    IF is_df
    THEN result_to_df([c \in DOMAIN data.columns |->
                          OutsideRange(data.columns[c].values)],
                      "outside_range", NoExtra)
    ELSE result_to_df(OutsideRange(data.values), "outside_range", NoExtra)

\* validate_binary_dtype never called.
check_outside_range_unvalidated(data) ==
    LET is_df == check_if_df(data) IN
    Returned(<<"check_if_df", "min", "max", "result_to_df">>,
             outside_range_report(data, is_df))

check_outside_range(data) ==
    LET is_df == check_if_df(data) IN
    IF validate_binary_dtype(data) = "TypeError"
    THEN Raised("TypeError", <<"check_if_df", "validate_binary_dtype">>)
    ELSE Returned(OutsideRangeTrace, outside_range_report(data, is_df))

\* ------------------------------------------------------- state machine
VARIABLES
    data,   \* the caller's input: a Series or a DataFrame
    pc,     \* "ready" before the call, "done" after it
    call,   \* the function called and its thresh argument, if any
    ret     \* what the call did

vars == <<data, pc, call, ret>>

Init ==
    /\ data \in Inputs
    /\ pc = "ready"
    /\ call = [fn |-> "none", args |-> <<>>]
    /\ ret = Raised("none", <<>>)

CallValidateBinaryDtype ==
    /\ pc = "ready"
    /\ pc' = "done"
    /\ call' = [fn |-> "validate_binary_dtype", args |-> <<>>]
    /\ ret' = LET r == validate_binary_dtype(data) IN
              IF r = "TypeError" THEN Raised("TypeError", <<"check_if_df">>)
              ELSE Raised("none", <<"check_if_df">>)
    /\ UNCHANGED data

CallCheckAllSame ==
    /\ pc = "ready"
    /\ pc' = "done"
    /\ call' = [fn |-> "check_all_same", args |-> <<>>]
    /\ ret' = check_all_same(data)
    /\ UNCHANGED data

CallCheckMostlySame ==
    /\ pc = "ready"
    /\ \E p \in ThreshArgs :
          /\ call' = [fn |-> "check_mostly_same", args |-> <<p>>]
          /\ ret' = check_mostly_same(data, Literal(p))
    /\ pc' = "done"
    /\ UNCHANGED data

CallCheckMostlySameDefault ==
    /\ pc = "ready"
    /\ pc' = "done"
    /\ call' = [fn |-> "check_mostly_same", args |-> <<>>]
    /\ ret' = check_mostly_same(data, Literal(DefaultThresh))
    /\ UNCHANGED data

CallCheckOutsideRange ==
    /\ pc = "ready"
    /\ pc' = "done"
    /\ call' = [fn |-> "check_outside_range", args |-> <<>>]
    /\ ret' = check_outside_range(data)
    /\ UNCHANGED data

Next ==
    \/ CallValidateBinaryDtype
    \/ CallCheckAllSame
    \/ CallCheckMostlySame
    \/ CallCheckMostlySameDefault
    \/ CallCheckOutsideRange

Spec == Init /\ [][Next]_vars

\* ---------------------------------------------------------- properties
Done(fn) == pc = "done" /\ call.fn = fn
Checks == {"check_all_same", "check_mostly_same", "check_outside_range"}

IsTable == data.kind = "DataFrame"
\* The input's columns by key: the column names of a table, one key for a
\* single column.
Cols == IF IsTable THEN DOMAIN data.columns ELSE {"-"}
ColAt(k) == IF IsTable THEN data.columns[k]
            ELSE [dtype |-> data.dtype, values |-> data.values]
ValuesAt(k) == ColAt(k).values
ValueSet(v) == {v[i] : i \in 1..Len(v)}
Count(v, x) == Cardinality({i \in 1..Len(v) : v[i] = x})

\* The validator rejects the input: some column's dtype is not allowed.
BadDtype == \E k \in Cols : ColAt(k).dtype \notin {"bool", "int64"}

\* The thresh of the call in hundredths, and whether it lies in (0.0, 1.0).
ThreshOf == IF call.args = <<>> THEN DefaultThresh ELSE call.args[1]
ThreshValid == 0 < ThreshOf /\ ThreshOf < 100

\* The returned report and its per-column parts.
Report == ret.report[1]
OutcomeAt(k) == IF IsTable THEN Report.outcome[k] ELSE Report.outcome
MeanAt(k) == IF IsTable THEN Report.extra.mean[k] ELSE Report.extra.mean
Statistics == {"min", "max", "mean"}
NoStatistic == \A i \in 1..Len(ret.trace) : ret.trace[i] \notin Statistics

\* ---- C1
IntegerDtypes == {"int64", "int32"}

\* C1 as stated: validate_binary_dtype raises the TypeError exactly when some
\* column's element type is neither boolean nor integer; every all-boolean or
\* all-integer input passes, every float or string column raises.
C1_AsStated ==
    Done("validate_binary_dtype") =>
        (ret.raised = "TypeError"
            <=> \E k \in Cols : ColAt(k).dtype \notin ({"bool"} \cup IntegerDtypes))

\* C1 amended: validate_binary_dtype raises the TypeError exactly when some
\* column's dtype is neither bool nor int64 (np.dtype(int)); an integer
\* column of another width (int32) raises like a float or a string column,
\* and nothing else is ever raised.
C1_DtypeGate ==
    Done("validate_binary_dtype") =>
        /\ ret.raised \in {"none", "TypeError"}
        /\ ret.raised = "TypeError"
              <=> \E k \in Cols : ColAt(k).dtype \notin {"bool", "int64"}
        /\ (\E k \in Cols : ColAt(k).dtype \in {"float64", "object", "int32"})
              => ret.raised = "TypeError"
        /\ (\A k \in Cols : ColAt(k).dtype = "bool") => ret.raised = "none"
        /\ (\A k \in Cols : ColAt(k).dtype = "int64") => ret.raised = "none"

\* A table with one allowed and one disallowed column was rejected.
C1_Witness ==
    /\ Done("validate_binary_dtype")
    /\ IsTable /\ DOMAIN data.columns = {"A", "B"}
    /\ data.columns["A"].dtype = "bool"
    /\ data.columns["B"].dtype = "float64"
    /\ ret.raised = "TypeError"

\* ---- C2
\* C2: check_mostly_same raises the ValueError exactly when thresh <= 0.0 or
\* thresh >= 1.0 (0.0, 1.0 and 1.01 included, 0.5 not); when it does, only
\* validate_thresh has run: no mean was computed and no report is returned.
C2_ThreshGate ==
    Done("check_mostly_same") =>
        /\ ret.raised = "ValueError" <=> (ThreshOf <= 0 \/ ThreshOf >= 100)
        /\ ret.raised = "ValueError" =>
              /\ ret.trace = <<"validate_thresh">>
              /\ NoStatistic
              /\ ret.report = <<>>

\* thresh = 1.0 on a valid column raised the ValueError.
C2_Witness ==
    /\ Done("check_mostly_same")
    /\ call.args = <<100>>
    /\ ~BadDtype /\ ~IsTable /\ Len(data.values) = 2
    /\ ret.raised = "ValueError"

\* ---- C3
\* All rows hold the same value.
Constant(v) == \A i, j \in 1..Len(v) : v[i] = v[j]

\* C3 as stated: for every dtype-valid input, check_all_same is true for a
\* column exactly when the column is constant (all rows hold the same value).
C3_AsStated ==
    (Done("check_all_same") /\ ret.raised = "none") =>
        \A k \in Cols : OutcomeAt(k) <=> Constant(ValuesAt(k))

\* C3 amended: for every dtype-valid input, check_all_same is true for a
\* column with at least one row exactly when its minimum equals its maximum,
\* i.e. exactly when all its rows hold the same value; a column holding both
\* 0 and 1 gets false.
C3_AllSame ==
    (Done("check_all_same") /\ ret.raised = "none") =>
        \A k \in Cols :
            LET v == ValuesAt(k) IN
            Len(v) > 0 =>
                /\ OutcomeAt(k) <=> Constant(v)
                /\ OutcomeAt(k) <=> Cardinality(ValueSet(v)) = 1
                /\ {0, 1} \subseteq ValueSet(v) => ~OutcomeAt(k)

\* A table with a constant and a non-constant column got true and false.
C3_Witness ==
    /\ Done("check_all_same") /\ ret.raised = "none"
    /\ IsTable /\ DOMAIN data.columns = {"A", "B"}
    /\ data.columns["A"].values = <<1, 1>>
    /\ data.columns["B"].values = <<0, 1>>
    /\ Report.outcome["A"] /\ ~Report.outcome["B"]

\* ---- C4
\* C4 as stated: for every valid threshold t = p/100 and every column with a
\* mean m = s/n, check_mostly_same is true exactly when m >= t or m <= 1 - t,
\* both inclusive (a mean of exactly t or exactly 1 - t is flagged), and the
\* report carries the threshold and the mean.
C4_AsStated ==
    (Done("check_mostly_same") /\ ret.raised = "none") =>
        /\ Report.extra.thresh = Literal(ThreshOf)
        /\ \A k \in Cols :
              LET v == ValuesAt(k)
                  s == SeqSum(v)
                  n == Len(v)
              IN  n > 0 =>
                    /\ MeanAt(k) = FromRatio(s, n)
                    /\ OutcomeAt(k) <=> \/ 100 * s >= ThreshOf * n
                                        \/ 100 * s <= (100 - ThreshOf) * n

\* ---- C5
\* C5 as stated, on columns whose values are 0 or 1: check_mostly_same is
\* true for a column exactly when a single value fills at least the
\* proportion t = p/100 of its rows.
C5_AsStated ==
    (Done("check_mostly_same") /\ ret.raised = "none") =>
        \A k \in Cols :
            LET v == ValuesAt(k) IN
            (Len(v) > 0 /\ ValueSet(v) \subseteq {0, 1}) =>
                (OutcomeAt(k)
                    <=> \E x \in ValueSet(v) : 100 * Count(v, x) >= ThreshOf * Len(v))

\* ---- C6
\* C6: for every dtype-valid input, check_outside_range is true for a column
\* exactly when its minimum is < 0 or its maximum is > 1, i.e. exactly when
\* it holds a value outside {0, 1}; a column of 0s and 1s, and every bool
\* column, gets false.
C6_OutsideRange ==
    (Done("check_outside_range") /\ ret.raised = "none") =>
        \A k \in Cols :
            LET v == ValuesAt(k) IN
            /\ OutcomeAt(k) <=> \E i \in 1..Len(v) : v[i] \notin {0, 1}
            /\ OutcomeAt(k) <=> \E i \in 1..Len(v) : v[i] < 0 \/ v[i] > 1
            /\ ColAt(k).dtype = "bool" => ~OutcomeAt(k)

\* [0, 1, 2] is flagged.
C6_Witness ==
    /\ Done("check_outside_range") /\ ret.raised = "none"
    /\ ~IsTable /\ data.dtype = "int64" /\ data.values = <<0, 1, 2>>
    /\ Report.outcome

\* ---- C7
\* C7 as stated: each of the three checks, given input of a disallowed
\* dtype, ends with the TypeError before any min, max or mean and returns no
\* report.
C7_AsStated ==
    (pc = "done" /\ call.fn \in Checks /\ BadDtype) =>
        /\ ret.raised = "TypeError"
        /\ NoStatistic
        /\ ret.report = <<>>

\* C7 amended: each of the three checks, given input of a disallowed dtype
\* (for a table, even in one column only), computes no min, max or mean and
\* returns no report; the call ends with the TypeError, except that
\* check_mostly_same with a threshold outside (0.0, 1.0) ends with the
\* ValueError instead.
C7_DtypeFirst ==
    (pc = "done" /\ call.fn \in Checks /\ BadDtype) =>
        /\ NoStatistic
        /\ ret.report = <<>>
        /\ ret.raised = IF call.fn = "check_mostly_same" /\ ~ThreshValid
                        THEN "ValueError" ELSE "TypeError"

\* check_outside_range on a table with one bool and one object column raised.
C7_Witness ==
    /\ Done("check_outside_range")
    /\ IsTable /\ DOMAIN data.columns = {"A", "B"}
    /\ data.columns["A"].dtype = "bool"
    /\ data.columns["B"].dtype = "object"
    /\ ret.raised = "TypeError"

\* ---- C8
\* The same check on one column alone, as a single-column input.
Alone(col) ==
    IF call.fn = "check_all_same" THEN check_all_same(SeriesOf(col))
    ELSE IF call.fn = "check_mostly_same"
         THEN check_mostly_same(SeriesOf(col), Literal(ThreshOf))
    ELSE check_outside_range(SeriesOf(col))

\* C8: a dtype-valid table gets one outcome per column, keyed by the column's
\* name, and a single column gets one scalar outcome; the outcome for a
\* table's column (and for check_mostly_same its mean) is what the same check
\* with the same threshold returns for that column alone.
C8_TableAgreesWithColumn ==
    (pc = "done" /\ call.fn \in Checks /\ ret.raised = "none") =>
        IF IsTable
        THEN /\ DOMAIN Report.outcome = DOMAIN data.columns
             /\ \A c \in DOMAIN data.columns :
                   LET one == Alone(data.columns[c]) IN
                   /\ one.raised = "none"
                   /\ one.report[1].outcome = Report.outcome[c]
                   /\ one.report[1].title = Report.title
                   /\ call.fn = "check_mostly_same" =>
                         /\ DOMAIN Report.extra.mean = DOMAIN data.columns
                         /\ one.report[1].extra.mean = Report.extra.mean[c]
                         /\ one.report[1].extra.thresh = Report.extra.thresh
        ELSE Report.outcome \in BOOLEAN

\* check_mostly_same(thresh=0.6) on a table of [1, 1] and [1, 0]: true for
\* the first column only.
C8_Witness ==
    /\ Done("check_mostly_same") /\ ret.raised = "none"
    /\ call.args = <<60>>
    /\ IsTable /\ DOMAIN data.columns = {"A", "B"}
    /\ data.columns["A"].values = <<1, 1>>
    /\ data.columns["B"].values = <<1, 0>>
    /\ Report.outcome["A"] /\ ~Report.outcome["B"]

\* ---- C9
\* C9: in check_mostly_same an invalid threshold together with a disallowed
\* dtype surfaces as the ValueError; the TypeError surfaces only when the
\* threshold is valid.
C9_ThreshBeforeDtype ==
    Done("check_mostly_same") =>
        /\ (~ThreshValid /\ BadDtype) => ret.raised = "ValueError"
        /\ ret.raised = "TypeError" => (ThreshValid /\ BadDtype)

\* thresh = 1.01 on a float64 column raised the ValueError.
C9_Witness ==
    /\ Done("check_mostly_same")
    /\ call.args = <<101>>
    /\ ~IsTable /\ data.dtype = "float64" /\ Len(data.values) = 1
    /\ ret.raised = "ValueError"

\* ---- C10
\* C10: for every dtype-valid column with at least one row and every valid
\* threshold, if check_all_same is true for the column then so is
\* check_mostly_same.
C10_ConstantIsMostlySame ==
    (Done("check_mostly_same") /\ ret.raised = "none") =>
        \A k \in Cols :
            LET same == check_all_same(data).report[1].outcome IN
            (Len(ValuesAt(k)) > 0 /\ (IF IsTable THEN same[k] ELSE same))
                => OutcomeAt(k)

\* A column of 0s (mean 0.0 <= 1 - 0.95) is constant and mostly the same.
C10_Witness ==
    /\ Done("check_mostly_same") /\ ret.raised = "none"
    /\ call.args = <<95>>
    /\ ~IsTable /\ data.dtype = "int64" /\ data.values = <<0, 0, 0>>
    /\ check_all_same(data).report[1].outcome
    /\ Report.outcome
=============================================================================
